---- MODULE Spec2Model ----
(***************************************************************************)
(* Model of create_touchpoints.py: the touchpoints provisioning workflow.  *)
(* One process (main) constructs a TouchpointsCreator from the process     *)
(* environment and runs four stages in sequence against a relational       *)
(* datastore (tables corporate_customers and touchpoints) and a message    *)
(* bus.  Every library call (connect, cursor, execute, commit, publish,    *)
(* close) either succeeds or raises; other clients of the datastore may    *)
(* remove customer rows and the server may drop a connection at any time.  *)
(*                                                                         *)
(* Abstractions: a customer row is (id, name); subscription_tier and the   *)
(* two timestamps are carried along unchanged by the code and are left     *)
(* out.  The event's timestamp and next_actions are left out likewise.     *)
(* SQL name equality is exact string equality; when several rows carry the *)
(* name, fetchone() returns any one of them.                               *)
(***************************************************************************)
EXTENDS Naturals, Integers, Sequences, FiniteSets, TLC

VARIABLES
    env,                 \* the process environment: variable name -> value or Unset
    self,                \* the TouchpointsCreator attributes set by __init__
    corporate_customers, \* datastore table: set of rows [id, name]
    touchpoints,         \* datastore table: set of committed rows
    pending,             \* rows inserted by the open transaction, not yet committed
    conn,                \* per datastore stage: the local `connection`
    cursor,              \* per datastore stage: the local `cursor`
    nc,                  \* the local `nc` of the publish stage
    bus,                 \* messages that reached the message bus, in order
    pc,                  \* position of the single thread of control
    stage,               \* the stage being run (0 before the first)
    exc,                 \* the exception in flight, or None
    ret,                 \* the identifier a datastore stage returns (or None)
    ret_details,         \* the mapping get_customer_details returns (or NoDetails)
    ret_event,           \* the boolean the publish stage returns
    new_id,              \* stage 2's local touchpoints_id (uuid4)
    customer_id,         \* workflow local
    touchpoints_id,      \* workflow local
    customer_details,    \* workflow local
    success,             \* main's local `success`: "unset", "True" or "False"
    exit_status,         \* <<>> while running, <<code>> once the process exited
    attempts,            \* history: the stages attempted, in order
    outcome,             \* history: per stage notrun/running/ok/failed/raised
    committed,           \* history: rows this invocation committed
    found,               \* history: customer rows stage 1 fetched
    tp0,                 \* history: the touchpoints table before the run
    dbConnects,          \* history: datastore connection attempts
    busConnects          \* history: message-bus connection attempts

vars == <<env, self, corporate_customers, touchpoints, pending, conn, cursor, nc,
          bus, pc, stage, exc, ret, ret_details, ret_event, new_id, customer_id, touchpoints_id,
          customer_details, success, exit_status, attempts, outcome, committed,
          found, tp0, dbConnects, busConnects>>

----------------------------------------------------------------------------
(* Bounds of the model *)

\* most required options missing (unset or empty) in an initial environment
MaxMissing == 1
\* most rows in corporate_customers before the run
MaxCustomers == 2
\* most rows in touchpoints before the run
MaxExisting == 1

----------------------------------------------------------------------------
(* Values *)

None == "<None>"
Unset == "<unset>"
NULL == "NULL"

RequiredVars == {"DB_HOST", "DB_NAME", "DB_USER", "DB_PASSWORD",
                 "NATS_URL", "NATS_USER", "NATS_PASSWORD", "CUSTOMER_NAME"}
OptionalVars == {"DB_PORT", "NATS_SUBJECT"}
EnvVars == RequiredVars \cup OptionalVars

DefaultPort == 3306
DefaultSubject == "touchpoints-created"

CustomerIds == {"", "c1", "c2"}
CustomerNames == {"Acme", "Other"}
TouchpointIds == {"t1", "t2"}
DbStages == 1..3
Stages == 1..4

\* os.getenv(name, default)
Getenv(e, name, default) == IF e[name] = Unset THEN default ELSE e[name]

\* Python truthiness of an optional string: None and "" are falsy
Truthy(v) == v # None /\ v # ""

\* int(text) succeeds on decimal digits only; "" and "abc" raise ValueError
IsInt(text) == text \in {"3306", "33006"}
IntOf(text) == IF text = "3306" THEN DefaultPort ELSE 33006

NoDetails == [id |-> None, name |-> None]

----------------------------------------------------------------------------
(* Initial states *)

AllCustomerRows == [id : CustomerIds, name : CustomerNames]

\* corporate_customers.id is the primary key
UniqueIds(rows) == \A r1, r2 \in rows : r1.id = r2.id => r1 = r2

\* the row the INSERT of create_touchpoints_record writes
NewRow(tid, cid) ==
    [id |-> tid, customer_id |-> cid, welcome_outreach |-> NULL,
     technical_onboarding |-> NULL, follow_up_call |-> NULL,
     feedback_session |-> NULL]

\* rows left in touchpoints by earlier runs (for customer c1)
ExistingRows == {NewRow(t, "c1") : t \in TouchpointIds}

\* an environment in which the required options of `missing` are absent:
\* how[v] says whether v is unset or set to the empty string
EnvOf(missing, how, port, subject) ==
    [v \in EnvVars |->
        IF v \in missing THEN how[v]
        ELSE IF v = "DB_PORT" THEN port
        ELSE IF v = "NATS_SUBJECT" THEN subject
        ELSE IF v = "CUSTOMER_NAME" THEN "Acme"
        ELSE "set"]

Init ==
    /\ \E missing \in SUBSET RequiredVars :
         /\ Cardinality(missing) <= MaxMissing
         /\ \E how \in [missing -> {Unset, ""}],
               port \in {Unset, "33006", "abc"},
               subject \in {Unset, "", "events"} :
              env = EnvOf(missing, how, port, subject)
    /\ self = [port |-> 0, nats_subject |-> None, customer_name |-> None]
    /\ corporate_customers \in
            {rows \in SUBSET AllCustomerRows :
                Cardinality(rows) <= MaxCustomers /\ UniqueIds(rows)}
    /\ touchpoints \in
            {rows \in SUBSET ExistingRows : Cardinality(rows) <= MaxExisting}
    /\ tp0 = touchpoints
    /\ pending = {}
    /\ conn = [s \in DbStages |-> "unbound"]
    /\ cursor = [s \in DbStages |-> "unbound"]
    /\ nc = "unbound"
    /\ bus = <<>>
    /\ pc = "main_start"
    /\ stage = 0
    /\ exc = None
    /\ ret = None
    /\ ret_details = NoDetails
    /\ ret_event = FALSE
    /\ new_id = None
    /\ customer_id = None
    /\ touchpoints_id = None
    /\ customer_details = NoDetails
    /\ success = "unset"
    /\ exit_status = <<>>
    /\ attempts = <<>>
    /\ outcome = [s \in Stages |-> "notrun"]
    /\ committed = {}
    /\ found = {}
    /\ dbConnects = 0
    /\ busConnects = 0

----------------------------------------------------------------------------
(* Construction: TouchpointsCreator.__init__ and _validate_env_vars *)

\* __init__: reads the environment.  int() of a DB_PORT that is set but not
\* a number raises ValueError, which leaves __init__ before the validation.
Construct ==
    /\ pc = "main_start"
    /\ IF env["DB_PORT"] # Unset /\ ~IsInt(env["DB_PORT"])
         THEN /\ exc' = "ValueError"
              /\ pc' = "main_except"
              /\ self' = self
         ELSE /\ self' = [port |-> IntOf(Getenv(env, "DB_PORT", "3306")),
                          nats_subject |-> Getenv(env, "NATS_SUBJECT", DefaultSubject),
                          customer_name |-> Getenv(env, "CUSTOMER_NAME", None)]
              /\ pc' = "validate"
              /\ exc' = exc
    /\ UNCHANGED <<env, corporate_customers, touchpoints, pending, conn, cursor,
                   nc, bus, stage, ret, ret_details, ret_event, new_id,
                   customer_id, touchpoints_id, customer_details, success,
                   exit_status, attempts, outcome, committed, found, tp0,
                   dbConnects, busConnects>>

\* the validation with `is None` in place of `not`: an empty value passes
MissingVarsUnsetOnly(e) == {v \in RequiredVars : e[v] = Unset}

\* missing_vars = [var for var in required_vars if not os.getenv(var)]
MissingVars(e) == {v \in RequiredVars : ~Truthy(Getenv(e, v, None))}

\* _validate_env_vars: sys.exit(1) when a required option is missing.
\* SystemExit is not an Exception, so main's handler lets it through.
ValidateEnvVars ==
    /\ pc = "validate"
    /\ IF MissingVars(env) # {}
         THEN /\ exit_status' = <<1>>
              /\ pc' = "exited"
         ELSE /\ exit_status' = exit_status
              /\ pc' = "wf_start"
    /\ UNCHANGED <<env, self, corporate_customers, touchpoints, pending, conn,
                   cursor, nc, bus, stage, exc, ret, ret_details, ret_event,
                   new_id, customer_id, touchpoints_id, customer_details,
                   success, attempts, outcome, committed, found, tp0,
                   dbConnects, busConnects>>

----------------------------------------------------------------------------
(* The three datastore stages *)

\* the workflow calls stage s
CallStage(s) ==
    /\ stage' = s
    /\ attempts' = Append(attempts, s)
    /\ outcome' = [outcome EXCEPT ![s] = "running"]
    /\ pc' = IF s \in DbStages THEN "connect" ELSE "nats_connect"

\* create_touchpoints_for_customer, step 1: call get_customer_id
StartWorkflow ==
    /\ pc = "wf_start"
    /\ CallStage(1)
    /\ UNCHANGED <<env, self, corporate_customers, touchpoints, pending, conn,
                   cursor, nc, bus, exc, ret, ret_details, ret_event, new_id,
                   customer_id, touchpoints_id, customer_details, success,
                   exit_status, committed, found, tp0, dbConnects, busConnects>>

\* connection = mysql.connector.connect(**self.db_config)
DbConnect ==
    /\ pc = "connect"
    /\ stage \in DbStages
    /\ dbConnects' = dbConnects + 1
    /\ \/ /\ conn' = [conn EXCEPT ![stage] = "connected"]
          /\ pc' = "cursor"
          /\ exc' = exc
       \/ /\ exc' = "Error"
          /\ pc' = "except"
          /\ conn' = conn
    /\ UNCHANGED <<env, self, corporate_customers, touchpoints, pending, cursor,
                   nc, bus, stage, ret, ret_details, ret_event, new_id,
                   customer_id, touchpoints_id, customer_details, success,
                   exit_status, attempts, outcome, committed, found, tp0,
                   busConnects>>

\* cursor = connection.cursor(): a failure leaves `cursor` unbound
DbCursor ==
    /\ pc = "cursor"
    /\ stage \in DbStages
    /\ \/ /\ conn[stage] = "connected"
          /\ cursor' = [cursor EXCEPT ![stage] = "open"]
          /\ pc' = CASE stage = 1 -> "query_name"
                     [] stage = 2 -> "insert"
                     [] stage = 3 -> "query_id"
          /\ exc' = exc
       \/ /\ exc' = "Error"
          /\ pc' = "except"
          /\ cursor' = cursor
    /\ UNCHANGED <<env, self, corporate_customers, touchpoints, pending, conn,
                   nc, bus, stage, ret, ret_details, ret_event, new_id,
                   customer_id, touchpoints_id, customer_details, success,
                   exit_status, attempts, outcome, committed, found, tp0,
                   dbConnects, busConnects>>

\* the lookup without its WHERE clause
RowsNamedNoWhere(rows, name) == rows

\* SELECT ... FROM corporate_customers WHERE name = %s
RowsNamed(rows, name) == {r \in rows : r.name = name}

\* get_customer_id: execute, fetchone, return the id or None
QueryByName ==
    /\ pc = "query_name"
    /\ \/ /\ conn[1] = "connected"
          /\ IF RowsNamed(corporate_customers, self.customer_name) # {}
               THEN \E r \in RowsNamed(corporate_customers, self.customer_name) :
                       /\ ret' = r.id
                       /\ found' = {r}
               ELSE /\ ret' = None
                    /\ found' = found
          /\ pc' = "finally"
          /\ exc' = exc
       \/ /\ exc' = "Error"
          /\ pc' = "except"
          /\ UNCHANGED <<ret, found>>
    /\ UNCHANGED <<env, self, corporate_customers, touchpoints, pending, conn,
                   cursor, nc, bus, stage, ret_details, ret_event, new_id,
                   customer_id, touchpoints_id, customer_details, success,
                   exit_status, attempts, outcome, committed, tp0, dbConnects,
                   busConnects>>

\* create_touchpoints_record: uuid4, then execute the INSERT.  touchpoints.id
\* is the primary key: an id already in the table is a constraint violation.
InsertRecord ==
    /\ pc = "insert"
    /\ \E tid \in TouchpointIds :
         /\ new_id' = tid
         /\ \/ /\ conn[2] = "connected"
               /\ tid \notin {r.id : r \in touchpoints}
               /\ pending' = {NewRow(tid, customer_id)}
               /\ pc' = "commit"
               /\ exc' = exc
            \/ /\ exc' = "Error"
               /\ pc' = "except"
               /\ pending' = pending
    /\ UNCHANGED <<env, self, corporate_customers, touchpoints, conn, cursor, nc,
                   bus, stage, ret, ret_details, ret_event, customer_id,
                   touchpoints_id, customer_details, success, exit_status,
                   attempts, outcome, committed, found, tp0, dbConnects,
                   busConnects>>

\* the stage without its connection.commit()
CommitMissing(table, rows) == table

\* connection.commit(): the rows of the transaction become durable
Commit(table, rows) == table \cup rows

\* create_touchpoints_record: commit, return touchpoints_id
CommitRecord ==
    /\ pc = "commit"
    /\ \/ /\ conn[2] = "connected"
          /\ touchpoints' = Commit(touchpoints, pending)
          /\ committed' = committed \cup (touchpoints' \ touchpoints)
          /\ pending' = {}
          /\ ret' = new_id
          /\ pc' = "finally"
          /\ exc' = exc
       \/ /\ exc' = "Error"
          /\ pc' = "except"
          /\ UNCHANGED <<touchpoints, committed, pending, ret>>
    /\ UNCHANGED <<env, self, corporate_customers, conn, cursor, nc, bus, stage,
                   ret_details, ret_event, new_id, customer_id, touchpoints_id,
                   customer_details, success, exit_status, attempts, outcome,
                   found, tp0, dbConnects, busConnects>>

\* SELECT ... FROM corporate_customers WHERE id = %s
RowsWithId(rows, cid) == {r \in rows : r.id = cid}

\* get_customer_details: execute, fetchone, return the mapping or None
QueryById ==
    /\ pc = "query_id"
    /\ \/ /\ conn[3] = "connected"
          /\ IF RowsWithId(corporate_customers, customer_id) # {}
               THEN \E r \in RowsWithId(corporate_customers, customer_id) :
                       ret_details' = [id |-> r.id, name |-> r.name]
               ELSE ret_details' = NoDetails
          /\ pc' = "finally"
          /\ exc' = exc
       \/ /\ exc' = "Error"
          /\ pc' = "except"
          /\ ret_details' = ret_details
    /\ UNCHANGED <<env, self, corporate_customers, touchpoints, pending, conn,
                   cursor, nc, bus, stage, ret, ret_event, new_id, customer_id,
                   touchpoints_id, customer_details, success, exit_status,
                   attempts, outcome, committed, found, tp0, dbConnects,
                   busConnects>>

\* except Error as e: log, return None
DbExcept ==
    /\ pc = "except"
    /\ stage \in DbStages
    /\ exc = "Error"
    /\ exc' = None
    /\ ret' = None
    /\ ret_details' = NoDetails
    /\ pc' = "finally"
    /\ UNCHANGED <<env, self, corporate_customers, touchpoints, pending, conn,
                   cursor, nc, bus, stage, ret_event, new_id, customer_id,
                   touchpoints_id, customer_details, success, exit_status,
                   attempts, outcome, committed, found, tp0, dbConnects,
                   busConnects>>

\* whether the value stage s returns passes the workflow's `if not ...` test
StageValueOk(s) ==
    CASE s = 1 -> Truthy(ret)
      [] s = 2 -> Truthy(ret)
      [] s = 3 -> ret_details # NoDetails
      [] s = 4 -> ret_event

\* the guard of the finally block:
\* 'connection' in locals() and connection.is_connected()
FinallyGuard(s) == conn[s] # "unbound" /\ conn[s] = "connected"

\* finally: cursor.close(); connection.close().  With `cursor` unbound,
\* cursor.close() raises UnboundLocalError before connection.close() runs; the
\* exception replaces the return value and leaves the stage and the workflow.
\* Closing the connection rolls back what was not committed.
DbFinally ==
    /\ pc = "finally"
    /\ stage \in DbStages
    /\ IF FinallyGuard(stage)
         THEN IF cursor[stage] = "unbound"
                THEN /\ exc' = "UnboundLocalError"
                     /\ pc' = "main_except"
                     /\ outcome' = [outcome EXCEPT ![stage] = "raised"]
                     /\ UNCHANGED <<conn, cursor, pending>>
                ELSE /\ cursor' = [cursor EXCEPT ![stage] = "closed"]
                     /\ conn' = [conn EXCEPT ![stage] = "closed"]
                     /\ pending' = {}
                     /\ pc' = "wf_check"
                     /\ outcome' = [outcome EXCEPT ![stage] =
                                      IF StageValueOk(stage) THEN "ok" ELSE "failed"]
                     /\ exc' = exc
         ELSE /\ pc' = "wf_check"
              /\ outcome' = [outcome EXCEPT ![stage] =
                               IF StageValueOk(stage) THEN "ok" ELSE "failed"]
              /\ UNCHANGED <<conn, cursor, pending, exc>>
    /\ UNCHANGED <<env, self, corporate_customers, touchpoints, nc, bus, stage,
                   ret, ret_details, ret_event, new_id, customer_id,
                   touchpoints_id, customer_details, success, exit_status,
                   attempts, committed, found, tp0, dbConnects, busConnects>>

----------------------------------------------------------------------------
(* The publish stage: publish_touchpoints_created_event *)

\* the two except clauses: (ConnectionClosedError, TimeoutError), Exception
NatsExceptions == {"ConnectionClosedError", "Exception"}

\* nc = await nats.connect(self.nats_url, user=..., password=...)
NatsConnect ==
    /\ pc = "nats_connect"
    /\ busConnects' = busConnects + 1
    /\ \/ /\ nc' = "connected"
          /\ pc' = "nats_publish"
          /\ exc' = exc
       \/ /\ exc' \in NatsExceptions
          /\ pc' = "nats_except"
          /\ nc' = nc
    /\ UNCHANGED <<env, self, corporate_customers, touchpoints, pending, conn,
                   cursor, bus, stage, ret, ret_details, ret_event, new_id,
                   customer_id, touchpoints_id, customer_details, success,
                   exit_status, attempts, outcome, committed, found, tp0,
                   dbConnects>>

\* the payload built with the customer's id in place of the record's
EventPayloadCustomerId(tid, details) ==
    [event_type |-> "touchpoints-created",
     touchpoints_id |-> details.id,
     customer |-> details,
     touchpoints |-> [welcome_outreach |-> NULL, technical_onboarding |-> NULL,
                      follow_up_call |-> NULL, feedback_session |-> NULL]]

\* event_payload
EventPayload(tid, details) ==
    [event_type |-> "touchpoints-created",
     touchpoints_id |-> tid,
     customer |-> details,
     touchpoints |-> [welcome_outreach |-> NULL, technical_onboarding |-> NULL,
                      follow_up_call |-> NULL, feedback_session |-> NULL]]

\* await nc.publish(self.nats_subject, json.dumps(event_payload)...)
NatsPublish ==
    /\ pc = "nats_publish"
    /\ \/ /\ bus' = Append(bus, [subject |-> self.nats_subject,
                                 payload |-> EventPayload(touchpoints_id,
                                                          customer_details)])
          /\ pc' = "nats_close"
          /\ exc' = exc
       \/ /\ exc' \in NatsExceptions
          /\ pc' = "nats_except"
          /\ bus' = bus
    /\ UNCHANGED <<env, self, corporate_customers, touchpoints, pending, conn,
                   cursor, nc, stage, ret, ret_details, ret_event, new_id,
                   customer_id, touchpoints_id, customer_details, success,
                   exit_status, attempts, outcome, committed, found, tp0,
                   dbConnects, busConnects>>

\* await nc.close(); return True
NatsClose ==
    /\ pc = "nats_close"
    /\ \/ /\ nc' = "closed"
          /\ ret_event' = TRUE
          /\ outcome' = [outcome EXCEPT ![4] = "ok"]
          /\ pc' = "wf_check"
          /\ exc' = exc
       \/ /\ exc' \in NatsExceptions
          /\ pc' = "nats_except"
          /\ UNCHANGED <<nc, ret_event, outcome>>
    /\ UNCHANGED <<env, self, corporate_customers, touchpoints, pending, conn,
                   cursor, bus, stage, ret, ret_details, new_id, customer_id,
                   touchpoints_id, customer_details, success, exit_status,
                   attempts, committed, found, tp0, dbConnects, busConnects>>

\* except (ConnectionClosedError, TimeoutError) / except Exception: return False
NatsExcept ==
    /\ pc = "nats_except"
    /\ exc \in NatsExceptions
    /\ exc' = None
    /\ ret_event' = FALSE
    /\ outcome' = [outcome EXCEPT ![4] = "failed"]
    /\ pc' = "wf_check"
    /\ UNCHANGED <<env, self, corporate_customers, touchpoints, pending, conn,
                   cursor, nc, bus, stage, ret, ret_details, new_id,
                   customer_id, touchpoints_id, customer_details, success,
                   exit_status, attempts, committed, found, tp0, dbConnects,
                   busConnects>>

----------------------------------------------------------------------------
(* The workflow: create_touchpoints_for_customer *)

\* a failure branch that deletes the record it created
TableAfterFailureCompensating(table, tid) == {r \in table : r.id # tid}

\* a failure branch logs and returns False: no statement of it touches the
\* touchpoints table
TableAfterFailure(table, tid) == table

\* logger.error(...); return False
ReturnFalse ==
    /\ success' = "False"
    /\ pc' = "main_result"
    /\ touchpoints' = TableAfterFailure(touchpoints, touchpoints_id')
    /\ UNCHANGED <<stage, attempts, outcome>>

\* customer_id = self.get_customer_id(...); if not customer_id: return False
AfterGetCustomerId ==
    /\ pc = "wf_check"
    /\ stage = 1
    /\ customer_id' = ret
    /\ touchpoints_id' = touchpoints_id
    /\ IF ~Truthy(ret)
         THEN ReturnFalse
         ELSE CallStage(2) /\ UNCHANGED <<success, touchpoints>>
    /\ UNCHANGED <<env, self, corporate_customers, pending, conn, cursor, nc,
                   bus, exc, ret, ret_details, ret_event, new_id,
                   customer_details, exit_status, committed, found, tp0,
                   dbConnects, busConnects>>

\* touchpoints_id = self.create_touchpoints_record(customer_id);
\* if not touchpoints_id: return False
AfterCreateRecord ==
    /\ pc = "wf_check"
    /\ stage = 2
    /\ touchpoints_id' = ret
    /\ IF ~Truthy(ret)
         THEN ReturnFalse
         ELSE CallStage(3) /\ UNCHANGED <<success, touchpoints>>
    /\ UNCHANGED <<env, self, corporate_customers, pending, conn, cursor, nc,
                   bus, exc, ret, ret_details, ret_event, new_id, customer_id,
                   customer_details, exit_status, committed, found, tp0,
                   dbConnects, busConnects>>

\* customer_details = self.get_customer_details(customer_id);
\* if not customer_details: return False
AfterGetDetails ==
    /\ pc = "wf_check"
    /\ stage = 3
    /\ customer_details' = ret_details
    /\ touchpoints_id' = touchpoints_id
    /\ IF ret_details = NoDetails
         THEN ReturnFalse
         ELSE CallStage(4) /\ UNCHANGED <<success, touchpoints>>
    /\ UNCHANGED <<env, self, corporate_customers, pending, conn, cursor, nc,
                   bus, exc, ret, ret_details, ret_event, new_id, customer_id,
                   exit_status, committed, found, tp0, dbConnects, busConnects>>

\* event_success = await self.publish_...; if not event_success: return False;
\* return True
AfterPublish ==
    /\ pc = "wf_check"
    /\ stage = 4
    /\ touchpoints_id' = touchpoints_id
    /\ IF ~ret_event
         THEN ReturnFalse
         ELSE /\ success' = "True"
              /\ pc' = "main_result"
              /\ UNCHANGED <<stage, attempts, outcome, touchpoints>>
    /\ UNCHANGED <<env, self, corporate_customers, pending, conn, cursor, nc,
                   bus, exc, ret, ret_details, ret_event, new_id, customer_id,
                   customer_details, exit_status, committed, found, tp0,
                   dbConnects, busConnects>>

----------------------------------------------------------------------------
(* main *)

\* main with sys.exit(0) on both branches
ExitCodeAlwaysZero(ok) == 0

\* if success: sys.exit(0) else: sys.exit(1)
ExitCodeFor(ok) == IF ok = "True" THEN 0 ELSE 1

\* the process ends: the operating system closes the sockets it still holds
ProcessEnd ==
    /\ pc' = "exited"
    /\ conn' = [s \in DbStages |-> IF conn[s] = "connected" THEN "closed" ELSE conn[s]]
    /\ nc' = IF nc = "connected" THEN "closed" ELSE nc
    /\ pending' = {}

MainResult ==
    /\ pc = "main_result"
    /\ exit_status' = <<ExitCodeFor(success)>>
    /\ ProcessEnd
    /\ UNCHANGED <<env, self, corporate_customers, touchpoints, cursor, bus,
                   stage, exc, ret, ret_details, ret_event, new_id, customer_id,
                   touchpoints_id, customer_details, success, attempts, outcome,
                   committed, found, tp0, dbConnects, busConnects>>

\* except Exception as e: log, sys.exit(1)
MainExcept ==
    /\ pc = "main_except"
    /\ exc # None
    /\ exit_status' = <<1>>
    /\ exc' = None
    /\ ProcessEnd
    /\ UNCHANGED <<env, self, corporate_customers, touchpoints, cursor, bus,
                   stage, ret, ret_details, ret_event, new_id, customer_id,
                   touchpoints_id, customer_details, success, attempts, outcome,
                   committed, found, tp0, dbConnects, busConnects>>

----------------------------------------------------------------------------
(* The environment *)

Running == pc \notin {"main_start", "validate", "wf_start", "exited"}

\* another client of the datastore deletes a customer row
EnvRemoveCustomer ==
    /\ Running
    /\ \E r \in corporate_customers :
         corporate_customers' = corporate_customers \ {r}
    /\ UNCHANGED <<env, self, touchpoints, pending, conn, cursor, nc, bus, pc,
                   stage, exc, ret, ret_details, ret_event, new_id, customer_id,
                   touchpoints_id, customer_details, success, exit_status,
                   attempts, outcome, committed, found, tp0, dbConnects,
                   busConnects>>

\* the server or the network drops an open datastore connection; its
\* uncommitted work is rolled back
EnvDropConnection ==
    /\ Running
    /\ \E s \in DbStages :
         /\ conn[s] = "connected"
         /\ conn' = [conn EXCEPT ![s] = "lost"]
    /\ pending' = {}
    /\ UNCHANGED <<env, self, corporate_customers, touchpoints, cursor, nc, bus,
                   pc, stage, exc, ret, ret_details, ret_event, new_id,
                   customer_id, touchpoints_id, customer_details, success,
                   exit_status, attempts, outcome, committed, found, tp0,
                   dbConnects, busConnects>>

Next ==
    \/ Construct
    \/ ValidateEnvVars
    \/ StartWorkflow
    \/ DbConnect
    \/ DbCursor
    \/ QueryByName
    \/ InsertRecord
    \/ CommitRecord
    \/ QueryById
    \/ DbExcept
    \/ DbFinally
    \/ NatsConnect
    \/ NatsPublish
    \/ NatsClose
    \/ NatsExcept
    \/ AfterGetCustomerId
    \/ AfterCreateRecord
    \/ AfterGetDetails
    \/ AfterPublish
    \/ MainResult
    \/ MainExcept
    \/ EnvRemoveCustomer
    \/ EnvDropConnection

Spec == Init /\ [][Next]_vars

----------------------------------------------------------------------------
(* Vocabulary of the properties *)

\* a required option is unset or empty
RequiredAbsent == \E v \in RequiredVars : env[v] \in {Unset, ""}

\* the workflow is over: it returned to main or raised into main's handler
WorkflowEnded == pc \in {"main_result", "main_except", "exited"}

\* a stage that did not succeed: it returned its failure signal or raised
StageFailed(s) == outcome[s] \in {"failed", "raised"}

OpenConnections == {s \in DbStages : conn[s] = "connected"}

IsPrefix(a, b) == Len(a) <= Len(b) /\ \A i \in 1..Len(a) : a[i] = b[i]

AllUnset(r) ==
    /\ r.welcome_outreach = NULL
    /\ r.technical_onboarding = NULL
    /\ r.follow_up_call = NULL
    /\ r.feedback_session = NULL

----------------------------------------------------------------------------
(* Properties *)

\* C1 (parts that concern the order of the stages): the stages are attempted
\* in the order 1, 2, 3, 4, each at most once, stage k only after stages
\* 1..k-1 succeeded, and nothing is attempted after a stage that failed.
C1_Order ==
    /\ IsPrefix(attempts, <<1, 2, 3, 4>>)
    /\ \A k \in 1..Len(attempts) : \A j \in 1..(k - 1) : outcome[j] = "ok"
    /\ \A s \in Stages : StageFailed(s) => Len(attempts) = s
    /\ dbConnects <= Len(attempts) /\ busConnects <= 1

\* C1: the four stages are attempted in order, each at most once, stage k
\* only if every earlier stage succeeded; once a stage fails no later stage is
\* attempted and the workflow returns failure; when the customer name has no
\* matching row the workflow returns failure with no insert and no publish.
C1_SequentialAbort ==
    /\ C1_Order
    /\ (WorkflowEnded /\ \E s \in Stages : StageFailed(s)) => success = "False"
    /\ (WorkflowEnded /\ attempts # <<>> /\ found = {}) =>
           /\ success = "False"
           /\ committed = {} /\ touchpoints = tp0 /\ bus = <<>>
           /\ Len(attempts) = 1

\* C2: commit precedes publish.  Whenever the publish stage is running or a
\* message has reached the bus, the touchpoints_id involved is the id of a row
\* this invocation committed to the touchpoints table.
C2_CommitPrecedesPublish ==
    /\ stage = 4 =>
           \E r \in committed : r.id = touchpoints_id /\ r \in touchpoints
    /\ \A i \in 1..Len(bus) :
           \E r \in committed :
               r.id = bus[i].payload.touchpoints_id /\ r \in touchpoints

C2_Witness == Len(bus) = 1 /\ stage = 4

\* C3: with a required option unset or empty the process makes no datastore
\* and no bus connection attempt, runs no stage, keeps stepping until it has
\* exited, and then its exit code is 1; with every required option present,
\* an unset DB_PORT or NATS_SUBJECT does not end the process during
\* construction, and the defaults 3306 and touchpoints-created apply.
C3_MissingOptionExitsBeforeConnecting ==
    /\ RequiredAbsent =>
           /\ dbConnects = 0 /\ busConnects = 0 /\ attempts = <<>>
           /\ pc \in {"main_start", "validate", "main_except", "exited"}
           /\ pc = "exited" => exit_status = <<1>>
           /\ pc # "exited" => ENABLED (Construct \/ ValidateEnvVars \/ MainExcept)
    /\ (~RequiredAbsent /\ (env["DB_PORT"] = Unset \/ IsInt(env["DB_PORT"]))) =>
           /\ pc \in {"exited", "main_except"} => attempts # <<>>
           /\ (pc \notin {"main_start"} /\ env["DB_PORT"] = Unset) =>
                  self.port = DefaultPort
           /\ (pc \notin {"main_start"} /\ env["NATS_SUBJECT"] = Unset) =>
                  self.nats_subject = "touchpoints-created"

C3_Witness == RequiredAbsent /\ pc = "exited" /\ exit_status = <<1>>

\* C4: a record this invocation committed stays in the touchpoints table,
\* unchanged, on every path; when the publish stage returned failure the
\* workflow returns failure, and when stage 3 or stage 4 did not succeed
\* after the insert the process exits 1 with the record still present.
C4_NoCompensation ==
    /\ committed \subseteq touchpoints
    /\ tp0 \subseteq touchpoints
    /\ (outcome[4] = "failed" /\ WorkflowEnded) =>
           success = "False" /\ committed # {}
    /\ ((StageFailed(3) \/ StageFailed(4)) /\ pc = "exited") =>
           /\ exit_status = <<1>>
           /\ success # "True"
           /\ committed # {} /\ committed \subseteq touchpoints

C4_Witness ==
    /\ pc = "exited"
    /\ outcome[4] = "failed"
    /\ \E r \in committed : r.id = touchpoints_id /\ r \in touchpoints

C6_ExitCode ==
    pc = "exited" =>
        /\ exit_status \in {<<0>>, <<1>>}
        /\ exit_status = <<0>> <=>
               (~RequiredAbsent /\ \A s \in Stages : outcome[s] = "ok")

C6_Witness == pc = "exited" /\ exit_status = <<0>>

\* C7: no exception escapes a stage boundary: every stage ends by returning
\* its success value or its failure signal, never by raising.
C7_NoExceptionEscapes == \A s \in Stages : outcome[s] # "raised"

\* C8: at most one datastore connection is open at any time, and none is open
\* when a stage has returned or when the workflow has ended.
C8_ScopedConnections ==
    /\ Cardinality(OpenConnections) <= 1
    /\ pc = "wf_check" => OpenConnections = {}
    /\ pc \in {"main_result", "main_except"} => OpenConnections = {}

C10_FalseMeansNothingPublished == outcome[4] = "failed" => bus = <<>>

====
